---- MODULE Spec2Model ----
(***************************************************************************)
(* Model of the vinculum crate (src/src/lib.rs): the encoder               *)
(* arabic2vinculum, the decoder vinculum2arabic and their two lookup       *)
(* tables.                                                                 *)
(*                                                                         *)
(* Numbers.  A u64 does not fit a TLC integer, so every number is a        *)
(* little-endian sequence of Width decimal digits: x[t + 1] is the digit   *)
(* of 10^t.  Width digits hold every exact value the program or the claims *)
(* speak of (at most a few times 5 * 10^20); the 64-bit range is enforced  *)
(* separately by Fits, Wrap and the checked operations.                    *)
(*                                                                         *)
(* Graphemes.  A grapheme cluster is written as its base letter followed   *)
(* by the index of its decoration: no index = plain, 1 = U+0305,           *)
(* 2 = U+033F, 3 = U+0332 U+033F, 4 = U+0333 U+033F,                       *)
(* 5 = U+20D2 U+0333 U+033F, 6 = U+20E6 U+0333 U+033F.  Two graphemes of   *)
(* the source are the same byte string iff their names here are equal.     *)
(***************************************************************************)
EXTENDS Integers, Sequences, FiniteSets, TLC

\* Highest tier of CHARACTER_TUPLES and GRAPHEME_VALUES.
MaxTier == 20

\* First (highest) power of ten of the encoder's loop, (1..=19).rev().
LoopTop == 19

\* Longest decoder input drawn directly (in graphemes).
MaxLen == 2

\* Encoder inputs have their nonzero digits in WindowLen adjacent tiers.
WindowLen == 2

Width == MaxTier + 2

Tiers == 0..MaxTier

(***************************************************************************)
(* Decimal arithmetic on digit sequences.                                  *)
(***************************************************************************)
Zero == SubSeq([i \in 1..Width |-> 0], 1, Width)

\* d * 10^t for a single digit d.
DigitAt(d, t) ==
    SubSeq([i \in 1..Width |-> IF i = t + 1 THEN d ELSE 0], 1, Width)

IsZero(x) == \A i \in 1..Width : x[i] = 0

RECURSIVE LessFrom(_, _, _)
LessFrom(x, y, i) ==
    IF i = 0 THEN FALSE
    ELSE IF x[i] # y[i] THEN x[i] < y[i]
    ELSE LessFrom(x, y, i - 1)

\* x < y, decided at the most significant digit where they differ.
Less(x, y) == LessFrom(x, y, Width)

RECURSIVE AddFrom(_, _, _, _)
AddFrom(x, y, i, carry) ==
    IF i > Width THEN <<>>
    ELSE LET s == x[i] + y[i] + carry
         IN  <<s % 10>> \o AddFrom(x, y, i + 1, s \div 10)

\* x + y, exact (callers stay below 10^Width).
Add(x, y) == AddFrom(x, y, 1, 0)

RECURSIVE SubFrom(_, _, _, _)
SubFrom(x, y, i, borrow) ==
    IF i > Width THEN <<>>
    ELSE LET d == x[i] - y[i] - borrow
         IN  <<(d + 10) % 10>> \o SubFrom(x, y, i + 1, IF d < 0 THEN 1 ELSE 0)

\* x - y, for y <= x.
Sub(x, y) == SubFrom(x, y, 1, 0)

\* x * 10^k (digits shifted out at the top are dropped; callers stay below).
ShiftUp(x, k) ==
    SubSeq([i \in 1..Width |-> IF i - k >= 1 THEN x[i - k] ELSE 0], 1, Width)

\* x / 10^k, integer division.
ShiftDown(x, k) ==
    SubSeq([i \in 1..Width |-> IF i + k <= Width THEN x[i + k] ELSE 0], 1, Width)

RECURSIVE TimesFrom(_, _, _, _)
TimesFrom(m, x, i, carry) ==
    IF i > Width THEN <<>>
    ELSE LET s == m * x[i] + carry
         IN  <<s % 10>> \o TimesFrom(m, x, i + 1, s \div 10)

\* m * x, exact, for a small multiplier m (the table's base multipliers).
Times(m, x) == IF m = 1 THEN x ELSE TimesFrom(m, x, 1, 0)

\* 2^64 = 18446744073709551616, least significant digit first.
TwoPow64 ==
    LET ds == <<6, 1, 6, 1, 5, 5, 9, 0, 7, 3, 7, 0, 4, 4, 7, 6, 4, 4, 8, 1>>
    IN  SubSeq([i \in 1..Width |-> IF i <= Len(ds) THEN ds[i] ELSE 0], 1, Width)

\* u64::MAX
U64Max == Sub(TwoPow64, DigitAt(1, 0))

Fits(x) == Less(x, TwoPow64)

\* x mod 2^64: what wrapping 64-bit arithmetic keeps of the exact result.
RECURSIVE Wrap(_)
Wrap(x) == IF Fits(x) THEN x ELSE Wrap(Sub(x, TwoPow64))

(***************************************************************************)
(* The two lookup tables.                                                  *)
(***************************************************************************)
\* tier -> (one, five, ten)
CHARACTER_TUPLES ==
    0 :> <<"I", "V", "X">> @@
    1 :> <<"X", "L", "C">> @@
    2 :> <<"C", "D", "I1">> @@
    3 :> <<"I1", "V1", "X1">> @@
    4 :> <<"X1", "L1", "C1">> @@
    5 :> <<"C1", "D1", "M1">> @@
    6 :> <<"M1", "V2", "X2">> @@
    7 :> <<"X2", "L2", "C2">> @@
    8 :> <<"C2", "D2", "M2">> @@
    9 :> <<"I3", "V3", "X3">> @@
    10 :> <<"X3", "L3", "C3">> @@
    11 :> <<"C3", "D3", "M3">> @@
    12 :> <<"I4", "V4", "X4">> @@
    13 :> <<"X4", "L4", "C4">> @@
    14 :> <<"C4", "D4", "M4">> @@
    15 :> <<"I5", "V5", "X5">> @@
    16 :> <<"X5", "L5", "C5">> @@
    17 :> <<"C5", "D5", "M5">> @@
    18 :> <<"I6", "V6", "X6">> @@
    19 :> <<"X6", "L6", "C6">> @@
    20 :> <<"C6", "D6", "M6">>

\* grapheme -> (base multiplier, tier)
GRAPHEME_VALUES ==
    "I" :> <<1, 0>> @@ "V" :> <<5, 0>> @@
    "X" :> <<1, 1>> @@ "L" :> <<5, 1>> @@
    "C" :> <<1, 2>> @@ "D" :> <<5, 2>> @@
    "I1" :> <<1, 3>> @@ "V1" :> <<5, 3>> @@
    "X1" :> <<1, 4>> @@ "L1" :> <<5, 4>> @@
    "C1" :> <<1, 5>> @@ "D1" :> <<5, 5>> @@
    "M1" :> <<1, 6>> @@ "V2" :> <<5, 6>> @@
    "X2" :> <<1, 7>> @@ "L2" :> <<5, 7>> @@
    "C2" :> <<1, 8>> @@ "D2" :> <<5, 8>> @@
    "I3" :> <<1, 9>> @@ "V3" :> <<5, 9>> @@
    "X3" :> <<1, 10>> @@ "L3" :> <<5, 10>> @@
    "C3" :> <<1, 11>> @@ "D3" :> <<5, 11>> @@
    "I4" :> <<1, 12>> @@ "V4" :> <<5, 12>> @@
    "X4" :> <<1, 13>> @@ "L4" :> <<5, 13>> @@
    "C4" :> <<1, 14>> @@ "D4" :> <<5, 14>> @@
    "I5" :> <<1, 15>> @@ "V5" :> <<5, 15>> @@
    "X5" :> <<1, 16>> @@ "L5" :> <<5, 16>> @@
    "C5" :> <<1, 17>> @@ "D5" :> <<5, 17>> @@
    "I6" :> <<1, 18>> @@ "V6" :> <<5, 18>> @@
    "X6" :> <<1, 19>> @@ "L6" :> <<5, 19>> @@
    "C6" :> <<1, 20>> @@ "D6" :> <<5, 20>>

\* Every grapheme either table mentions.
TableGraphemes ==
    DOMAIN GRAPHEME_VALUES \cup
    {CHARACTER_TUPLES[t][j] : t \in DOMAIN CHARACTER_TUPLES, j \in 1..3}

\* The two ways the crate can be built: overflow checks on (debug, the
\* profile of cargo test) or off (release, where 64-bit arithmetic wraps).
Builds == {"debug", "release"}

(***************************************************************************)
(* Encoder.                                                                *)
(***************************************************************************)
IsDigit(x) == \A i \in 2..Width : x[i] = 0

\* Mutant of make_vinculum: 4 written additively, as four one-glyphs.
make_vinculum_tally(times, chars) ==
    IF ~IsDigit(times) THEN <<"Err">>
    ELSE CASE times[1] = 1 -> <<"Ok", <<chars[1]>>>>
           [] times[1] = 2 -> <<"Ok", <<chars[1], chars[1]>>>>
           [] times[1] = 3 -> <<"Ok", <<chars[1], chars[1], chars[1]>>>>
           [] times[1] = 4 -> <<"Ok", <<chars[1], chars[1], chars[1], chars[1]>>>>
           [] times[1] = 5 -> <<"Ok", <<chars[2]>>>>
           [] times[1] = 6 -> <<"Ok", <<chars[2], chars[1]>>>>
           [] times[1] = 7 -> <<"Ok", <<chars[2], chars[1], chars[1]>>>>
           [] times[1] = 8 -> <<"Ok", <<chars[2], chars[1], chars[1], chars[1]>>>>
           [] times[1] = 9 -> <<"Ok", <<chars[1], chars[3]>>>>
           [] OTHER -> <<"Err">>

\* Mutant of make_vinculum: the two glyphs of 6 in the order of 4.
make_vinculum_swapped(times, chars) ==
    IF ~IsDigit(times) THEN <<"Err">>
    ELSE CASE times[1] = 1 -> <<"Ok", <<chars[1]>>>>
           [] times[1] = 2 -> <<"Ok", <<chars[1], chars[1]>>>>
           [] times[1] = 3 -> <<"Ok", <<chars[1], chars[1], chars[1]>>>>
           [] times[1] = 4 -> <<"Ok", <<chars[1], chars[2]>>>>
           [] times[1] = 5 -> <<"Ok", <<chars[2]>>>>
           [] times[1] = 6 -> <<"Ok", <<chars[1], chars[2]>>>>
           [] times[1] = 7 -> <<"Ok", <<chars[2], chars[1], chars[1]>>>>
           [] times[1] = 8 -> <<"Ok", <<chars[2], chars[1], chars[1], chars[1]>>>>
           [] times[1] = 9 -> <<"Ok", <<chars[1], chars[3]>>>>
           [] OTHER -> <<"Err">>

\* make_vinculum: <<"Ok", graphemes>> or <<"Err">> (Unsupported number).
make_vinculum(times, chars) ==
    IF ~IsDigit(times) THEN <<"Err">>
    ELSE CASE times[1] = 1 -> <<"Ok", <<chars[1]>>>>
           [] times[1] = 2 -> <<"Ok", <<chars[1], chars[1]>>>>
           [] times[1] = 3 -> <<"Ok", <<chars[1], chars[1], chars[1]>>>>
           [] times[1] = 4 -> <<"Ok", <<chars[1], chars[2]>>>>
           [] times[1] = 5 -> <<"Ok", <<chars[2]>>>>
           [] times[1] = 6 -> <<"Ok", <<chars[2], chars[1]>>>>
           [] times[1] = 7 -> <<"Ok", <<chars[2], chars[1], chars[1]>>>>
           [] times[1] = 8 -> <<"Ok", <<chars[2], chars[1], chars[1], chars[1]>>>>
           [] times[1] = 9 -> <<"Ok", <<chars[1], chars[3]>>>>
           [] OTHER -> <<"Err">>

\* make_vinculum_number: the table lookup is unwrapped, so a missing tier
\* panics.
make_vinculum_number(power_ten, times) ==
    IF power_ten \in DOMAIN CHARACTER_TUPLES
    THEN make_vinculum(times, CHARACTER_TUPLES[power_ten])
    ELSE <<"Panic">>

\* 10_u64.pow(n), exact.
Pow10(n) == DigitAt(1, n)

\* for n in (1..=19).rev() { ... }, from power n on: the remaining value
\* and the text when the loop ends, or the failed unwrap.  The divisor
\* 10_u64.pow(n) is exact for n <= 19 (10^19 < 2^64), so arabic / divisor
\* drops n digits and divisor * divided puts them back.  `calls` records
\* each call of make_vinculum_number as <<power_ten, times>>.
RECURSIVE Loop(_, _, _, _)
Loop(n, arabic, result, calls) ==
    IF n < 1
    THEN [ok |-> TRUE, arabic |-> arabic, result |-> result, calls |-> calls]
    ELSE LET divided == ShiftDown(arabic, n)
         IN  IF IsZero(divided)
             THEN Loop(n - 1, arabic, result, calls)
             ELSE LET appendix == make_vinculum_number(n, divided)
                      made == Append(calls, <<n, divided>>)
                  IN  IF appendix[1] = "Ok"
                      THEN Loop(n - 1, Sub(arabic, ShiftUp(divided, n)),
                                result \o appendix[2], made)
                      ELSE [ok |-> FALSE, arabic |-> arabic,
                            result |-> result, calls |-> made]

\* Mutant of arabic2vinculum: the loop over (1..19), without its upper end.
arabic2vinculum_exclusive(input) ==
    IF IsZero(input)
    THEN [ok |-> TRUE, arabic |-> input, result |-> <<>>, calls |-> <<>>]
    ELSE LET l == Loop(LoopTop - 1, input, <<>>, <<>>)
         IN  IF ~l.ok \/ IsZero(l.arabic) THEN l
             ELSE LET rest == make_vinculum_number(0, l.arabic)
                      made == Append(l.calls, <<0, l.arabic>>)
                  IN  IF rest[1] = "Ok"
                      THEN [ok |-> TRUE, arabic |-> l.arabic,
                            result |-> l.result \o rest[2], calls |-> made]
                      ELSE [ok |-> FALSE, arabic |-> l.arabic,
                            result |-> l.result, calls |-> made]

\* arabic2vinculum(input): ok is FALSE when an unwrap panics; otherwise
\* result is the text of Ok(result).
arabic2vinculum(input) ==
    IF IsZero(input)
    THEN [ok |-> TRUE, arabic |-> input, result |-> <<>>, calls |-> <<>>]
    ELSE LET l == Loop(LoopTop, input, <<>>, <<>>)
         IN  IF ~l.ok \/ IsZero(l.arabic) THEN l
             ELSE LET rest == make_vinculum_number(0, l.arabic)
                      made == Append(l.calls, <<0, l.arabic>>)
                  IN  IF rest[1] = "Ok"
                      THEN [ok |-> TRUE, arabic |-> l.arabic,
                            result |-> l.result \o rest[2], calls |-> made]
                      ELSE [ok |-> FALSE, arabic |-> l.arabic,
                            result |-> l.result, calls |-> made]

(***************************************************************************)
(* Decoder.                                                                *)
(***************************************************************************)
\* A 64-bit operation whose exact result is p: <<"Ok", p>> when p fits;
\* otherwise a panic when the build checks overflow, else p mod 2^64.
Checked(build, p) ==
    IF Fits(p) THEN <<"Ok", p>>
    ELSE IF build = "debug" THEN <<"Panic">>
    ELSE <<"Ok", Wrap(p)>>

\* value(grapheme): <<"Ok", v>>, <<"Err", grapheme>> or <<"Panic">>.
value(build, grapheme) ==
    IF grapheme \in DOMAIN GRAPHEME_VALUES
    THEN LET powers == GRAPHEME_VALUES[grapheme]
             pw == Checked(build, Pow10(powers[2]))
         IN  IF pw[1] = "Ok"
             THEN Checked(build, Times(powers[1], pw[2]))
             ELSE pw
    ELSE <<"Err", grapheme>>

\* graphemes(true).map(value).collect::<Result<Vec<_>, _>>(): the values in
\* order, or the first failure met.
RECURSIVE Collect(_, _, _, _)
Collect(build, input, i, acc) ==
    IF i > Len(input) THEN <<"Ok", acc>>
    ELSE LET v == value(build, input[i])
         IN  IF v[1] = "Ok"
             THEN Collect(build, input, i + 1, Append(acc, v[2]))
             ELSE v

\* a.checked_sub(b): <<>> is None.
checked_sub(a, b) == IF Less(a, b) THEN <<>> ELSE <<Sub(a, b)>>

\* Mutant of ScanStep: the comparison prev <= next in place of prev < next.
ScanStep_inclusive(state, next) ==
    LET prev == IF state = <<>> THEN next ELSE state[1]
    IN  IF ~Less(next, prev)
        THEN LET d == checked_sub(next, prev)
             IN  IF d = <<>> THEN <<>> ELSE checked_sub(d[1], prev)
        ELSE <<next>>

\* The closure given to scan: the term for `next` after `state` (<<>> is
\* None), or <<>> when a checked_sub fails.
ScanStep(state, next) ==
    LET prev == IF state = <<>> THEN next ELSE state[1]
    IN  IF Less(prev, next)
        THEN LET d == checked_sub(next, prev)
             IN  IF d = <<>> THEN <<>> ELSE checked_sub(d[1], prev)
        ELSE <<next>>

\* values.iter().scan(None, ...).sum(), from element i on: sum() pulls a
\* term from the scan, adds it, and stops when the closure returns None.
\* pulled counts the elements the closure was called on, terms the terms it
\* yielded, and cut tells that it returned None.
RECURSIVE Fold(_, _, _, _, _, _)
Fold(build, vals, i, state, sum, terms) ==
    IF i > Len(vals)
    THEN [outcome |-> <<"Ok", sum>>, cut |-> FALSE, terms |-> terms,
          pulled |-> i - 1]
    ELSE LET term == ScanStep(state, vals[i])
         IN  IF term = <<>>
             THEN [outcome |-> <<"Ok", sum>>, cut |-> TRUE, terms |-> terms,
                   pulled |-> i]
             ELSE LET added == Checked(build, Add(sum, term[1]))
                  IN  IF added[1] = "Ok"
                      THEN Fold(build, vals, i + 1, <<vals[i]>>, added[2],
                                terms + 1)
                      ELSE [outcome |-> added, cut |-> FALSE,
                            terms |-> terms + 1, pulled |-> i]

(***************************************************************************)
(* The calls checked: arabic2vinculum(input), optionally followed by       *)
(* vinculum2arabic on its output, and vinculum2arabic(text) on any text.   *)
(***************************************************************************)
\* The number whose digits at tiers t, t+1, ... are ds[1], ds[2], ...
Window(t, ds) ==
    SubSeq([i \in 1..Width |->
               IF i - t \in 1..WindowLen THEN ds[i - t] ELSE 0], 1, Width)

\* u64 arguments of arabic2vinculum: every value whose nonzero digits lie in
\* WindowLen adjacent tiers, and u64::MAX (the argument of the crate's
\* test_arabic2vinculum_irregular_numbers).
Inputs ==
    {x \in {Window(t, ds) : t \in 0..LoopTop, ds \in [1..WindowLen -> 0..9]} :
        Fits(x)} \cup {U64Max}

\* Graphemes of decoder arguments: those of the tables and one foreign one.
Alphabet == TableGraphemes \cup {"Z"}

\* &str arguments of vinculum2arabic, as grapheme sequences.
Texts == UNION {[1..k -> Alphabet] : k \in 0..MaxLen}

NoInput == <<>>

VARIABLES
    build,      \* overflow checks on ("debug") or off ("release")
    pc,         \* position in the calls
    input,      \* argument of arabic2vinculum, NoInput in a decode-only run
    arabic,     \* arabic2vinculum: the remaining value when it ended
    result,     \* arabic2vinculum: the String built, as graphemes
    calls,      \* arabic2vinculum: its calls of make_vinculum_number
    text,       \* argument of vinculum2arabic, as graphemes
    values,     \* vinculum2arabic: the collected Vec<u64>
    pulled,     \* vinculum2arabic: number of values the scan was given
    terms,      \* vinculum2arabic: number of terms the scan yielded
    cut,        \* vinculum2arabic: the scan closure returned None
    outcome     \* what vinculum2arabic did: <<"Ok", v>>, <<"Err", g>>,
                \* <<"Panic">>, or <<"Pending">>

vars == <<build, pc, input, arabic, result, calls, text, values, pulled,
          terms, cut, outcome>>

encVars == <<input, arabic, result, calls>>

Init ==
    /\ build \in Builds
    /\ \/ pc = "enc_call" /\ input \in Inputs /\ text = <<>>
       \/ pc = "dec_call" /\ input = NoInput /\ text \in Texts
    /\ arabic = Zero
    /\ result = <<>>
    /\ calls = <<>>
    /\ values = <<>>
    /\ pulled = 0
    /\ terms = 0
    /\ cut = FALSE
    /\ outcome = <<"Pending">>

\* A call of arabic2vinculum(input), to its return or its panic.
EncCall ==
    /\ pc = "enc_call"
    /\ \E r \in {arabic2vinculum(input)} :
           /\ pc' = IF r.ok THEN "enc_done" ELSE "enc_panic"
           /\ arabic' = r.arabic
           /\ result' = r.result
           /\ calls' = r.calls
    /\ UNCHANGED <<build, input, text, values, pulled, terms, cut, outcome>>

\* The caller hands the text of the encoder's Ok to vinculum2arabic.
RoundTrip ==
    /\ pc = "enc_done"
    /\ text' = result
    /\ pc' = "dec_call"
    /\ UNCHANGED <<build, encVars, values, pulled, terms, cut, outcome>>

\* vinculum2arabic, lines 123-124: map value over the graphemes and collect,
\* returning the first Err through `?`.
DecMap ==
    /\ pc = "dec_call"
    /\ \E c \in {Collect(build, text, 1, <<>>)} :
           IF c[1] = "Ok"
           THEN /\ values' = c[2]
                /\ pc' = "dec_fold"
                /\ outcome' = outcome
           ELSE /\ values' = values
                /\ pc' = "dec_done"
                /\ outcome' = c
    /\ UNCHANGED <<build, encVars, text, pulled, terms, cut>>

\* vinculum2arabic, lines 126-134: Ok of the scan's sum, or the panic of an
\* overflowing sum.
DecFold ==
    /\ pc = "dec_fold"
    /\ \E f \in {Fold(build, values, 1, <<>>, Zero, 0)} :
           /\ outcome' = f.outcome
           /\ cut' = f.cut
           /\ terms' = f.terms
           /\ pulled' = f.pulled
    /\ pc' = "dec_done"
    /\ UNCHANGED <<build, encVars, text, values>>

Next ==
    \/ EncCall
    \/ RoundTrip
    \/ DecMap
    \/ DecFold

Spec == Init /\ [][Next]_vars

(***************************************************************************)
(* Definitions the properties are stated with.                             *)
(***************************************************************************)
\* base * 10^tier of a table grapheme, as an exact integer.
Exact(g) == DigitAt(GRAPHEME_VALUES[g][1], GRAPHEME_VALUES[g][2])

Known(t) == \A i \in 1..Len(t) : t[i] \in DOMAIN GRAPHEME_VALUES

\* The digit patterns of the specification: 0 renders nothing.
Render(d, one, five, ten) ==
    CASE d = 0 -> <<>>
      [] d = 1 -> <<one>>
      [] d = 2 -> <<one, one>>
      [] d = 3 -> <<one, one, one>>
      [] d = 4 -> <<one, five>>
      [] d = 5 -> <<five>>
      [] d = 6 -> <<five, one>>
      [] d = 7 -> <<five, one, one>>
      [] d = 8 -> <<five, one, one, one>>
      [] d = 9 -> <<one, ten>>

\* The renderings of the decimal digits of x at tiers t, t - 1, ..., 0.
RECURSIVE ByTiers(_, _)
ByTiers(x, t) ==
    IF t < 0 THEN <<>>
    ELSE Render(x[t + 1], CHARACTER_TUPLES[t][1], CHARACTER_TUPLES[t][2],
                CHARACTER_TUPLES[t][3]) \o ByTiers(x, t - 1)

\* v_1 + ... + v_k of the exact values of the graphemes i..Len(t) of t.
RECURSIVE Plus(_, _)
Plus(t, i) ==
    IF i > Len(t) THEN Zero ELSE Add(Exact(t[i]), Plus(t, i + 1))

\* The sum of 2 * v_(i-1) over the positions i..Len(t) with v_(i-1) < v_i.
RECURSIVE Minus(_, _)
Minus(t, i) ==
    IF i > Len(t) THEN Zero
    ELSE IF i > 1 /\ Less(Exact(t[i - 1]), Exact(t[i]))
    THEN Add(Times(2, Exact(t[i - 1])), Minus(t, i + 1))
    ELSE Minus(t, i + 1)

\* The first grapheme of t that the value table lacks.
FirstUnknown(t) ==
    t[CHOOSE i \in 1..Len(t) :
        /\ t[i] \notin DOMAIN GRAPHEME_VALUES
        /\ \A j \in 1..(i - 1) : t[j] \in DOMAIN GRAPHEME_VALUES]

\* The table graphemes whose exact value is a u64.
Representable == {g \in DOMAIN GRAPHEME_VALUES : Fits(Exact(g))}

\* The end (first index past it) of the longest run of graphemes of the set
\* S that starts at index i of the text t.
RECURSIVE RunEnd(_, _, _)
RunEnd(t, i, S) ==
    IF i <= Len(t) /\ t[i] \in S THEN RunEnd(t, i + 1, S) ELSE i

\* The digit whose rendering with the triplet of `tier` is the text r; 10 if
\* there is none.
DigitOf(r, tier) ==
    LET c == CHARACTER_TUPLES[tier]
        ds == {d \in 0..9 : Render(d, c[1], c[2], c[3]) = r}
    IN  IF ds = {} THEN 10 ELSE CHOOSE d \in ds : TRUE

\* Reading a text back, tier by tier from `tier` down: the run of graphemes
\* of the tier's triplet at index i is that tier's digit.  The digits of
\* tiers 0..tier, least significant first; a text that is not used up
\* yields no digits.
RECURSIVE ReadBack(_, _, _)
ReadBack(t, i, tier) ==
    IF tier < 0 THEN (IF i > Len(t) THEN <<>> ELSE <<10>>)
    ELSE LET c == CHARACTER_TUPLES[tier]
             e == RunEnd(t, i, {c[1], c[2], c[3]})
         IN  ReadBack(t, e, tier - 1) \o <<DigitOf(SubSeq(t, i, e - 1), tier)>>

\* The number read back from a text (digits above LoopTop are 0).
Parse(t) ==
    LET ds == ReadBack(t, 1, LoopTop)
    IN  SubSeq([i \in 1..Width |-> IF i <= Len(ds) THEN ds[i] ELSE 0], 1, Width)

(***************************************************************************)
(* Properties.                                                             *)
(***************************************************************************)
\* C1: decoding the text arabic2vinculum(n) returned gives Ok(n).
C1_RoundTrip ==
    (pc = "dec_done" /\ input # NoInput) =>
        /\ outcome[1] = "Ok"
        /\ outcome[2] = input

\* C2: arabic2vinculum(n) returns exactly the renderings of the decimal
\* digits of n at tiers 19 down to 0, each with its tier's triplet; 0 gives
\* the empty text.
C2_DigitsByTier ==
    pc \in {"enc_done", "enc_panic"} =>
        /\ pc = "enc_done"
        /\ result = ByTiers(input, LoopTop)
        /\ (IsZero(input) => result = <<>>)

C2_Witness ==
    /\ pc = "enc_done"
    /\ input = U64Max
    /\ SubSeq(result, 1, 5) = <<"X6", "V6", "I6", "I6", "I6">>

\* C3: for a text of table graphemes with values v_1..v_k, vinculum2arabic
\* returns Ok(s) with s the sum of the v_i less 2 * v_(i-1) for every i with
\* v_(i-1) < v_i; the empty text gives 0.
C3_SumOfTerms ==
    (pc = "dec_done" /\ Known(text)) =>
        /\ outcome[1] = "Ok"
        /\ Add(outcome[2], Minus(text, 1)) = Plus(text, 1)

\* C4: a text with a grapheme the value table lacks makes vinculum2arabic
\* return the error naming the first such grapheme.
C4_FirstUnknownNamed ==
    (pc = "dec_done" /\ ~Known(text)) =>
        /\ outcome[1] = "Err"
        /\ outcome[2] = FirstUnknown(text)

\* C5: when a fold step has prev < new and new - prev - prev underflows,
\* vinculum2arabic returns an error, never Ok of a partial sum.
C5_UnderflowIsError ==
    (pc = "dec_done" /\ cut) => outcome[1] = "Err"

\* C6: distinct arguments of arabic2vinculum give distinct texts: the
\* argument can be read back from the text alone (Parse is a left inverse of
\* arabic2vinculum), so two arguments with the same text are equal.
C6_DistinctOutputs ==
    pc = "enc_done" => Parse(result) = input

C6_Witness ==
    /\ pc = "enc_done"
    /\ input = DigitAt(4, 0)
    /\ result = <<"I", "V">>
    /\ arabic2vinculum(DigitAt(6, 0)).result = <<"V", "I">>
    /\ Parse(<<"V", "I">>) = DigitAt(6, 0)

\* C7: arabic2vinculum never panics: each of its calls of
\* make_vinculum_number has a tier in 0..19 that the triplet table holds and
\* a digit in 1..9, and the value left after the loop is in 0..9.
C7_EncoderTotal ==
    /\ pc # "enc_panic"
    /\ pc = "enc_done" =>
        /\ \A k \in 1..Len(calls) :
            /\ calls[k][1] \in 0..LoopTop
            /\ calls[k][1] \in DOMAIN CHARACTER_TUPLES
            /\ IsDigit(calls[k][2])
            /\ calls[k][2][1] \in 1..9
        /\ IsDigit(arabic)

C7_Witness ==
    /\ pc = "enc_done"
    /\ input = U64Max
    /\ calls # <<>>
    /\ calls[1] = <<LoopTop, DigitAt(1, 0)>>
    /\ calls[Len(calls)] = <<0, DigitAt(5, 0)>>

\* C8: for every tier t the value table maps the triplet's one-glyph to
\* (1, t) and its five-glyph to (5, t), and below tier 20 its ten-glyph to
\* (1, t + 1), which is the one-glyph of tier t + 1; so every grapheme the
\* encoder emits is one the decoder accepts.
C8_TablesAgree ==
    /\ \A t \in Tiers :
        LET one == CHARACTER_TUPLES[t][1]
            five == CHARACTER_TUPLES[t][2]
            ten == CHARACTER_TUPLES[t][3]
        IN  /\ one \in DOMAIN GRAPHEME_VALUES
            /\ GRAPHEME_VALUES[one] = <<1, t>>
            /\ five \in DOMAIN GRAPHEME_VALUES
            /\ GRAPHEME_VALUES[five] = <<5, t>>
            /\ t < MaxTier =>
                /\ ten \in DOMAIN GRAPHEME_VALUES
                /\ GRAPHEME_VALUES[ten] = <<1, t + 1>>
                /\ ten = CHARACTER_TUPLES[t + 1][1]
    /\ pc = "enc_done" => Known(result)

\* C9: for every table grapheme, value returns exactly base * 10^tier, which
\* is a u64: no overflow, wrap-around or panic.
C9_ValueExact ==
    pc \in {"dec_fold", "dec_done"} =>
        \A i \in 1..Len(text) :
            text[i] \in DOMAIN GRAPHEME_VALUES =>
                /\ Fits(Exact(text[i]))
                /\ value(build, text[i]) = <<"Ok", Exact(text[i])>>

\* C10: of two table graphemes whose exact values are u64, a smaller value
\* is at most half the larger; so on a text of such graphemes no subtractive
\* step underflows, the scan is never cut short, and every grapheme the scan
\* is given yields a term: all of them when vinculum2arabic returns.
C10_NoUnderflow ==
    (pc = "dec_done" /\ \A i \in 1..Len(text) : text[i] \in Representable) =>
        /\ \A i \in 2..Len(text) :
            Less(Exact(text[i - 1]), Exact(text[i])) =>
                ~Less(Exact(text[i]), Times(2, Exact(text[i - 1])))
        /\ ~cut
        /\ terms = pulled
        /\ outcome[1] # "Err"
        /\ outcome[1] = "Ok" => terms = Len(text)

C10_Witness ==
    /\ pc = "dec_done"
    /\ text = <<"V6", "X6">>
    /\ pulled = 2
    /\ terms = 2
    /\ outcome = <<"Ok", DigitAt(5, 18)>>

====
